---- MODULE Spec2Model ----
(***************************************************************************)
(* The IPC layer of the Cognia plugin SDK (cognia/ipc.py): the TauriIPC    *)
(* client, its StdioTransport with the background read loop, and the       *)
(* MockTransport.                                                          *)
(*                                                                         *)
(* Scheduling is asyncio's: one event loop, so the code between two real   *)
(* suspension points runs atomically.  The suspension points of the code   *)
(* are  wait_for(future)  in invoke,  run_in_executor(readline)  in        *)
(* receive, and  await self._reader_task  in StdioTransport.disconnect.    *)
(* Awaiting a coroutine that never suspends (StdioTransport.connect,       *)
(* StdioTransport.send, all of MockTransport) does not yield to the loop.  *)
(*                                                                         *)
(* The state holds the live objects only: a transport is dropped once      *)
(* nothing refers to it, a future once neither a waiting invoke nor a      *)
(* pending table refers to it, the frame of an invoke once it has          *)
(* returned.  What an invoke returned is observed in  completed.           *)
(***************************************************************************)
EXTENDS Integers, Sequences, FiniteSets, TLC

\* ------------------------------------------------------------------ bounds
MaxMsgs == 2          \* ids generated (invoke + emit, all instances)
MaxTransports == 1    \* transport objects alive at a time
MaxJoiners == 1       \* disconnect() callers suspended on one reader task
MaxFired == 2         \* handler invocations recorded
MaxListens == 2       \* listen() registrations
MaxResponses == 2     \* set_mock_response() calls on one transport
MaxInstances == 2     \* TauriIPC objects that get_instance constructs
MaxLoops == 2         \* read-loop tasks alive on one transport

\* ------------------------------------------------------------------ values
None == "None"
Self == 1                       \* id(self) of the client under observation
OtherInstances == {2}           \* id(self) of other TauriIPC instances
Modes == {"subprocess", "websocket", "stdio"}
Commands == {"ping", "slow"}
ArgsValues == {None, "{}", "{a:1}"}
Topics == {"user:login", "user:*"}   \* the topics listen is called with
EventTopics == {"user:login"}        \* the topics of the host's events
Handlers == {"h1", "h2"}
AsyncHandlers == {"ha"}         \* async def ha(payload): await ipc.invoke("ping")
Raising == {"h2"}               \* the handlers that raise when they are called
Payloads == {"p1", "p2"}
Errors == {"boom", ""}
NoId == <<>>                    \* the empty string of data.get("id", "")
BogusId == <<0, 0>>             \* an id no client generated

VARIABLES
    mode,            \* IPCConfig.mode
    ipc_connected,   \* TauriIPC._connected
    transport,       \* TauriIPC._transport: a key of transports, 0 is None
    transports,      \* the live transport objects, by address
    event_handlers,  \* TauriIPC._event_handlers
    msg_counter,     \* TauriIPC._msg_counter (class attribute)
    waiting,         \* the ids of the invoke() calls suspended in wait_for
    futures,         \* the live futures of register_pending, by message id
    completed,       \* what the invoke that finished last returned or raised
    written,         \* the number of lines written to sys.stdout
    issued,          \* every id _generate_id returned, in order
    fired,           \* handler invocations <<handler, payload>>, in order
    logged,          \* the last exception a read loop caught and logged
    framing,         \* a message given to StdioTransport.send, the line
                     \* written for it, and what _parse_message reads back
    subs,            \* the listen() calls, in order: what each registered
                     \* and the unsubscribe function it returned
    instance,        \* TauriIPC._instance (class attribute): the number of
                     \* the object in constructed, 0 is None
    constructed,         \* the config of every object get_instance constructed
    returned         \* what the last get_instance / get_ipc call returned

vars == <<mode, ipc_connected, transport, transports, event_handlers,
          msg_counter, waiting, futures, completed, written, issued, fired,
          logged, framing, subs, instance, constructed, returned>>

\* ------------------------------------------------------------------ helpers
Range(s) == {s[i] : i \in 1..Len(s)}

\* dict.get(key, default) and dict[key] = value on a function
Get(d, k, default) == IF k \in DOMAIN d THEN d[k] ELSE default
Put(d, k, v) == [x \in (DOMAIN d) \cup {k} |-> IF x = k THEN v ELSE d[x]]

EmptyDict == [x \in {} |-> None]

\* Python truthiness of the optional fields of a message
Falsy(v) == v \in {None, "", "{}"}

\* ------------------------------------------------------------------ IPCMessage
IPCMessage(id, type, command, args, payload, error) ==
    [id |-> id, type |-> type, command |-> command, args |-> args,
     payload |-> payload, error |-> error]

NoFrame == IPCMessage(NoId, "", None, None, None, None)

\* A JSON object: the entries of message under the given keys
JsonObject(message, keys) == [k \in keys |-> message[k]]

\* A line of text: valid JSON or not, with the markers __COGNIA_IPC__ and
\* __END__ around it or not, and the object the JSON text denotes
NoLine == [marked |-> FALSE, json_ok |-> FALSE, data |-> EmptyDict]

\* The line StdioTransport.send writes for a message: id and type always,
\* command, args and error when truthy, payload when not None
Serialize(message) ==
    [marked |-> TRUE, json_ok |-> TRUE,
     data |-> JsonObject(message,
                 {"id", "type"}
                 \cup (IF Falsy(message.command) THEN {} ELSE {"command"})
                 \cup (IF Falsy(message.args) THEN {} ELSE {"args"})
                 \cup (IF message.payload = None THEN {} ELSE {"payload"})
                 \cup (IF Falsy(message.error) THEN {} ELSE {"error"}))]

\* The messages a caller can give to send
Messages ==
    {IPCMessage(<<1, Self>>, type, command, args, payload, error) :
        type \in {"invoke", "event", "response", "error"},
        command \in {None, "", "ping"},
        args \in ArgsValues,
        payload \in {None, "p1"},
        error \in {None, "", "boom"}}

NoFraming == [message |-> NoFrame, line |-> NoLine, parsed |-> NoFrame]

\* ------------------------------------------------------------------ transports
\* Where a read loop stands while it awaits the coroutine of a handler: the
\* id of the invoke the coroutine is suspended in, and the key, the index
\* and the payload its for loop goes on with
NoAwait == [id |-> NoId, key |-> "", at |-> 0, payload |-> None]

StdioTransport ==
    [kind |-> "stdio", connected |-> FALSE, pending_responses |-> {},
     event_handlers |-> [e \in Topics |-> <<>>], reader_task |-> "none",
     joiners |-> 0, mock_responses |-> EmptyDict, closures |-> {},
     registered |-> <<>>, orphans |-> 0, awaiting |-> NoAwait]

MockTransport ==
    [kind |-> "mock", connected |-> FALSE, pending_responses |-> {},
     event_handlers |-> [e \in Topics |-> <<>>], reader_task |-> "none",
     joiners |-> 0, mock_responses |-> EmptyDict, closures |-> {},
     registered |-> <<>>, orphans |-> 0, awaiting |-> NoAwait]

\* StdioTransport.connect / MockTransport.connect
TransportConnect(tr) ==
    IF tr.kind = "stdio"
    THEN [tr EXCEPT !.connected = TRUE, !.reader_task = "running"]
    ELSE [tr EXCEPT !.connected = TRUE]

\* An invoke that leaves the table alone
RegisterPendingSkipped(tr, msg_id) == tr

\* StdioTransport.register_pending: the table gets the key msg_id, whose
\* value is the new future futures[msg_id]
RegisterPending(tr, msg_id) ==
    [tr EXCEPT !.pending_responses = @ \cup {msg_id}]

\* A registration that keeps the response a command already has
SetMockResponseOnce(tr, command, response) ==
    [tr EXCEPT !.mock_responses =
                  IF command \in DOMAIN @ THEN @ ELSE Put(@, command, response),
               !.registered = Append(@, <<command, response>>)]

\* MockTransport.set_mock_response: self._mock_responses[command] = response;
\* registered keeps the calls, in order
SetMockResponse(tr, command, response) ==
    [tr EXCEPT !.mock_responses = Put(@, command, response),
               !.registered = Append(@, <<command, response>>)]

\* MockTransport.get_mock_response
GetMockResponse(tr, command) == Get(tr.mock_responses, command, None)

\* A transport object lives while the client, a reader task that has not
\* finished, or a suspended disconnect() refers to it
Live(ts, cur) ==
    [t \in {u \in DOMAIN ts : \/ u = cur
                              \/ ts[u].reader_task \in {"running", "awaiting",
                                                         "cancelling"}
                              \/ ts[u].orphans > 0
                              \/ ts[u].joiners > 0} |-> ts[t]]

\* A future lives while a waiting invoke or a pending table refers to it
Referenced(fs, w, ts) ==
    [id \in {i \in DOMAIN fs :
                i \in w \/ \E t \in DOMAIN ts : i \in ts[t].pending_responses}
        |-> fs[id]]

\* The address of a new transport object: the first one free
NewAddress(ts) ==
    CHOOSE a \in 1..(MaxTransports + 1) :
        /\ a \notin DOMAIN ts
        /\ \A b \in 1..(MaxTransports + 1) : b \notin DOMAIN ts => a <= b

\* ------------------------------------------------------------------ client
\* An id without the counter: f"msg_{id(self)}"
GenerateIdNoCounter(counter, inst) == <<0, inst>>

\* TauriIPC._generate_id: f"msg_{counter}_{id(self)}" after the increment
GenerateId(counter, inst) == <<counter + 1, inst>>

\* The client's fields that connect() reads and writes
Client == [connected |-> ipc_connected, transport |-> transport,
           transports |-> transports]

\* connect() without its guard "if self._connected: return"
ClientConnectAlways(cl) ==
    LET new == IF mode = "stdio" THEN StdioTransport ELSE MockTransport
        old == Live(cl.transports, 0)
        a == NewAddress(old)
    IN [connected |-> TRUE,
        transport |-> a,
        transports |-> Put(old, a, TransportConnect(new))]

\* TauriIPC.connect; the assignment to self._transport drops the client's
\* reference to the transport it had
ClientConnect(cl) ==
    IF cl.connected
    THEN cl
    ELSE LET new == IF mode = "stdio" THEN StdioTransport ELSE MockTransport
             old == Live(cl.transports, 0)
             a == NewAddress(old)
         IN [connected |-> TRUE,
             transport |-> a,
             transports |-> Put(old, a, TransportConnect(new))]

\* connect() as invoke and emit call it
LazyConnect(cl) == IF ~cl.connected THEN ClientConnect(cl) ELSE cl

\* connect() creates no transport, or there is room for one more
CanConnect ==
    ipc_connected \/ Cardinality(DOMAIN Live(transports, 0)) < MaxTransports

\* asyncio.Future of an invoke: by is the frame that settled it
NewFuture == [state |-> "pending", value |-> None, by |-> NoFrame]

Completion(id, kind, value, by) ==
    [id |-> id, kind |-> kind, value |-> value, by |-> by]

InitClient ==
    /\ mode \in Modes
    /\ ipc_connected = FALSE
    /\ transport = 0
    /\ transports = EmptyDict
    /\ event_handlers = [e \in Topics |-> <<>>]
    /\ msg_counter = 0
    /\ waiting = {}
    /\ futures = EmptyDict
    /\ completed = Completion(NoId, "none", None, NoFrame)
    /\ written = 0
    /\ issued = <<>>
    /\ fired = <<>>
    /\ logged = "none"
    /\ subs = <<>>
    /\ instance = 0
    /\ constructed = <<>>
    /\ returned = 0

Init == InitClient /\ framing = NoFraming

\* The config arguments of get_instance and get_ipc: None, or an IPCConfig
Timeouts == {"30.0", "0.1"}

IPCConfig(m, timeout) == [mode |-> m, timeout |-> timeout]

\* The argument config=None
NoConfig == IPCConfig(None, None)

Configs == {NoConfig} \cup {IPCConfig(m, timeout) : m \in Modes, timeout \in Timeouts}

\* A getter that constructs an object on every call
InstanceAlwaysNew(inst, fresh) == fresh

\* get_instance: "if cls._instance is None: cls._instance = cls(config)",
\* then "return cls._instance"; fresh is the object cls(config) would make
InstanceOrNew(inst, fresh) == IF inst = 0 THEN fresh ELSE inst

\* TauriIPC.get_instance(config), which get_ipc(config) calls; __init__
\* keeps "config or IPCConfig()"
GetInstance(config) ==
    LET fresh == Len(constructed) + 1
        got == InstanceOrNew(instance, fresh)
    IN /\ got = fresh => Len(constructed) < MaxInstances
       /\ instance' = got
       /\ returned' = got
       /\ constructed' = IF got = fresh
                     THEN Append(constructed, IF config = NoConfig
                                          THEN IPCConfig("subprocess", "30.0")
                                          ELSE config)
                     ELSE constructed
       /\ UNCHANGED <<mode, framing, subs, ipc_connected, transport, transports,
                      event_handlers, msg_counter, waiting, futures, completed,
                      written, issued, fired, logged>>

\* TauriIPC.reset_instance
ResetInstance ==
    /\ instance' = 0
    /\ UNCHANGED <<mode, framing, subs, constructed, returned, ipc_connected,
                   transport, transports, event_handlers, msg_counter, waiting,
                   futures, completed, written, issued, fired, logged>>

\* await ipc.connect(), when there is room for the transport it may create
ConnectWhen(room) ==
    /\ room
    /\ LET cl == ClientConnect(Client)
       IN /\ ipc_connected' = cl.connected
          /\ transport' = cl.transport
          /\ transports' = cl.transports
          /\ futures' = Referenced(futures, waiting, cl.transports)
    /\ UNCHANGED <<mode, instance, constructed, returned, framing, subs,
                   event_handlers, msg_counter, waiting, completed, written,
                   issued, fired, logged>>

\* await ipc.connect()
Connect == ConnectWhen(CanConnect)

\* TauriIPC.invoke up to its first suspension: lazy connect, _generate_id,
\* register_pending, send; on the mock transport the whole call.  The
\* branch "Transport not initialized" is dead: connect() sets _transport.
Invoke(command, args) ==
    /\ CanConnect
    /\ msg_counter < MaxMsgs
    /\ LET cl == LazyConnect(Client)
           t == cl.transport
           tr == cl.transports[t]
           msg_id == GenerateId(msg_counter, Self)
       IN /\ ipc_connected' = cl.connected
          /\ transport' = t
          /\ msg_counter' = msg_counter + 1
          /\ issued' = Append(issued, msg_id)
          /\ IF tr.kind = "stdio"
             THEN /\ transports' = [cl.transports EXCEPT ![t] = RegisterPending(tr, msg_id)]
                  /\ IF tr.connected
                     THEN /\ written' = written + 1
                          /\ waiting' = waiting \cup {msg_id}
                          /\ completed' = completed
                     ELSE \* send raises RuntimeError("Transport not connected")
                          /\ written' = written
                          /\ waiting' = waiting
                          /\ completed' = Completion(msg_id, "RuntimeError",
                                              "Transport not connected", NoFrame)
                  /\ futures' = Referenced(Put(futures, msg_id, NewFuture),
                                           waiting', transports')
             ELSE /\ transports' = cl.transports
                  /\ written' = written
                  /\ waiting' = waiting
                  /\ futures' = Referenced(futures, waiting, cl.transports)
                  /\ completed' = Completion(msg_id, "result",
                                      GetMockResponse(tr, command), NoFrame)
    /\ UNCHANGED <<mode, instance, constructed, returned, framing, subs,
                   event_handlers, fired, logged>>

\* wait_for resumes the caller with the future's result or exception
InvokeReturn(id) ==
    /\ id \in waiting
    /\ futures[id].state \in {"result", "exception"}
    /\ waiting' = waiting \ {id}
    /\ completed' = Completion(id,
                        IF futures[id].state = "result" THEN "result" ELSE "IPCError",
                        futures[id].value, futures[id].by)
    /\ futures' = Referenced(futures, waiting', transports)
    /\ UNCHANGED <<mode, instance, constructed, returned, framing, subs,
                   ipc_connected, transport, transports, event_handlers,
                   msg_counter, written, issued, fired, logged>>

\* A timeout that cancels every pending future, not only its own
InvokeTimeoutAll(id) ==
    /\ id \in waiting
    /\ waiting' = waiting \ {id}
    /\ completed' = Completion(id, "IPCError", "timed out", NoFrame)
    /\ futures' = Referenced(
           [i \in DOMAIN futures |->
               [futures[i] EXCEPT !.state = IF @ = "pending" THEN "cancelled" ELSE @]],
           waiting', transports)
    /\ UNCHANGED <<mode, instance, constructed, returned, framing, subs,
                   ipc_connected, transport, transports, event_handlers,
                   msg_counter, written, issued, fired, logged>>

\* wait_for times out: it cancels the future and invoke raises
\* IPCError("Command ... timed out").  A future that is already done when the
\* timer fires, its waiter not yet resumed, stays as it is: up to Python 3.11
\* wait_for then returns the result (InvokeReturn), from 3.12 on the timeout
\* wins; both are behaviours of the supported interpreters.
InvokeTimeout(id) ==
    /\ id \in waiting
    /\ waiting' = waiting \ {id}
    /\ completed' = Completion(id, "IPCError", "timed out", NoFrame)
    /\ futures' = Referenced(
           [futures EXCEPT ![id].state = IF @ = "pending" THEN "cancelled" ELSE @],
           waiting', transports)
    /\ UNCHANGED <<mode, instance, constructed, returned, framing, subs,
                   ipc_connected, transport, transports, event_handlers,
                   msg_counter, written, issued, fired, logged>>

\* An emit that registers a waiter for its id and suspends, as invoke does
EmitAndWait(event, payload) ==
    /\ CanConnect
    /\ msg_counter < MaxMsgs
    /\ LET cl == LazyConnect(Client)
           t == cl.transport
           tr == cl.transports[t]
           msg_id == GenerateId(msg_counter, Self)
       IN /\ ipc_connected' = cl.connected
          /\ transport' = t
          /\ transports' = [cl.transports EXCEPT ![t] = RegisterPending(tr, msg_id)]
          /\ waiting' = waiting \cup {msg_id}
          /\ futures' = Referenced(Put(futures, msg_id, NewFuture),
                                   waiting', transports')
          /\ msg_counter' = msg_counter + 1
          /\ issued' = Append(issued, msg_id)
          /\ written' = IF tr.kind = "stdio" /\ tr.connected
                        THEN written + 1 ELSE written
    /\ UNCHANGED <<mode, instance, constructed, returned, framing, subs,
                   event_handlers, completed, fired, logged>>

\* A test calls ipc._transport.set_mock_response(command, response)
SetResponse(command, response) ==
    /\ transport # 0
    /\ transports[transport].kind = "mock"
    /\ Len(transports[transport].registered) < MaxResponses
    /\ transports' = [transports EXCEPT
           ![transport] = SetMockResponse(@, command, response)]
    /\ UNCHANGED <<mode, instance, constructed, returned, framing, subs,
                   ipc_connected, transport, event_handlers, msg_counter,
                   waiting, futures, completed, written, issued, fired,
                   logged>>

\* TauriIPC.emit
Emit(event, payload) ==
    /\ CanConnect
    /\ msg_counter < MaxMsgs
    /\ LET cl == LazyConnect(Client)
           t == cl.transport
           tr == cl.transports[t]
           msg_id == GenerateId(msg_counter, Self)
       IN /\ ipc_connected' = cl.connected
          /\ transport' = t
          /\ transports' = cl.transports
          /\ futures' = Referenced(futures, waiting, cl.transports)
          /\ msg_counter' = msg_counter + 1
          /\ issued' = Append(issued, msg_id)
          /\ written' = IF tr.kind = "stdio" /\ tr.connected
                        THEN written + 1 ELSE written
    /\ UNCHANGED <<mode, instance, constructed, returned, framing, subs,
                   event_handlers, waiting, completed, fired, logged>>

\* _generate_id on another TauriIPC instance (its invoke or emit)
OtherGenerateId(inst) ==
    /\ msg_counter < MaxMsgs
    /\ msg_counter' = msg_counter + 1
    /\ issued' = Append(issued, GenerateId(msg_counter, inst))
    /\ UNCHANGED <<mode, instance, constructed, returned, framing, subs,
                   ipc_connected, transport, transports, event_handlers,
                   waiting, futures, completed, written, fired, logged>>

\* list.remove(x): the first occurrence goes; ValueError (caught by the
\* callers here) when there is none
RemoveFirst(list, x) ==
    IF \E i \in 1..Len(list) : list[i] = x
    THEN LET i == CHOOSE n \in 1..Len(list) :
                     list[n] = x /\ \A m \in 1..(n - 1) : list[m] # x
         IN [n \in 1..(Len(list) - 1) |-> IF n < i THEN list[n] ELSE list[n + 1]]
    ELSE list

\* StdioTransport.add_event_handler for the listen() call number k: the
\* closure unsubscribe it returns is bound to this transport object
AddEventHandler(tr, event, handler, k) ==
    [tr EXCEPT !.event_handlers[event] = Append(@, handler),
               !.closures = @ \cup {k}]

\* The body of TauriIPC.listen(event, fn): fn goes to the client's table
\* and, when the client holds a StdioTransport, to the transport's table;
\* the function returned is the transport's unsubscribe or the client's
ListenCall(event, fn, inner) ==
    LET k == Len(subs) + 1
        stdio == transport # 0 /\ transports[transport].kind = "stdio"
    IN /\ event_handlers' = [event_handlers EXCEPT ![event] = Append(@, fn)]
       /\ transports' = IF stdio
                        THEN [transports EXCEPT
                                 ![transport] = AddEventHandler(@, event, fn, k)]
                        ELSE transports
       /\ subs' = Append(subs, [event |-> event, handler |-> fn, inner |-> inner,
                                level |-> IF stdio THEN "transport" ELSE "client",
                                called |-> FALSE])
       /\ UNCHANGED <<mode, instance, constructed, returned, framing,
                      ipc_connected, transport, msg_counter, waiting, futures,
                      completed, written, issued, fired, logged>>

\* TauriIPC.listen
Listen(event, handler) ==
    /\ Len(subs) < MaxListens
    /\ ListenCall(event, handler, handler)

\* The closure wrapper that once() creates in its call number k
Wrapper(k) == ToString(k)

\* TauriIPC.once: listen with a wrapper that calls the unsubscribe function
\* listen returned, then the handler
Once(event, handler) ==
    /\ Len(subs) < MaxListens
    /\ ListenCall(event, Wrapper(Len(subs) + 1), handler)

\* The caller calls the unsubscribe function that listen() call k returned:
\* the client-level one removes the handler from the client's table, the
\* transport-level one from the table of the transport it is bound to (a
\* transport no longer alive has no table anyone reads)
Unsubscribe(k) ==
    LET sub == subs[k]
    IN /\ subs' = [subs EXCEPT ![k].called = TRUE]
       /\ IF sub.level = "client"
          THEN /\ event_handlers' = [event_handlers EXCEPT
                      ![sub.event] = RemoveFirst(@, sub.handler)]
               /\ transports' = transports
          ELSE /\ event_handlers' = event_handlers
               /\ transports' = [t \in DOMAIN transports |->
                      IF k \in transports[t].closures
                      THEN [transports[t] EXCEPT
                               !.event_handlers[sub.event] = RemoveFirst(@, sub.handler)]
                      ELSE transports[t]]
       /\ UNCHANGED <<mode, instance, constructed, returned, framing,
                      ipc_connected, transport, msg_counter, waiting, futures,
                      completed, written, issued, fired, logged>>

\* ------------------------------------------------------------------ inbound
\* The lines the host can write to stdin: a line is valid JSON (json_ok) or
\* not, carries the frame markers (marked) or not, and holds the dict data.
KnownIds == Range(issued) \cup {BogusId}

ReplyFrames ==
    {IPCMessage(id, "response", None, None, p, None) :
        id \in KnownIds, p \in Payloads}
    \cup {IPCMessage(id, "error", None, None, None, e) :
        id \in KnownIds, e \in Errors}

EventFrames ==
    {IPCMessage(NoId, "event", e, None, p, None) :
        e \in EventTopics \cup {None}, p \in Payloads}

OtherFrames == {IPCMessage(BogusId, "invoke", "ping", None, None, None)}

Frames == ReplyFrames \cup EventFrames \cup OtherFrames

\* The JSON object the host writes for a frame: it leaves out the id of an
\* event and the fields that are null
HostJson(frame) ==
    JsonObject(frame,
        (IF frame.id = NoId THEN {} ELSE {"id"})
        \cup {"type"}
        \cup {k \in {"command", "args", "payload", "error"} : frame[k] # None})

CorruptLines == [marked : BOOLEAN, json_ok : {FALSE}, data : {EmptyDict}]

Lines ==
    [marked : BOOLEAN, json_ok : {TRUE}, data : {HostJson(f) : f \in Frames}]
    \cup CorruptLines

\* The framed replies of the host, and a corrupt line
ReplyLines ==
    [marked : {TRUE}, json_ok : {TRUE}, data : {HostJson(f) : f \in ReplyFrames}]
    \cup [marked : {TRUE}, json_ok : {FALSE}, data : {EmptyDict}]

\* The framed events of the host
EventLines ==
    [marked : {TRUE}, json_ok : {TRUE}, data : {HostJson(f) : f \in EventFrames}]

\* StdioTransport._parse_message: json.loads on the text between the markers,
\* or on the whole line when it has none; ok is FALSE for
\* json.JSONDecodeError.  The message is built with data.get.
ParseMessage(line) ==
    IF line.json_ok
    THEN [ok |-> TRUE,
          message |-> IPCMessage(Get(line.data, "id", NoId),
                                 Get(line.data, "type", ""),
                                 Get(line.data, "command", None),
                                 Get(line.data, "args", None),
                                 Get(line.data, "payload", None),
                                 Get(line.data, "error", None))]
    ELSE [ok |-> FALSE, message |-> NoFrame]

\* future.set_result / future.set_exception on a pending future
SetFuture(fut, state, value, by) ==
    [state |-> state, value |-> value, by |-> by]

\* message.error or "Unknown error"
ErrorText(message) ==
    IF Falsy(message.error) THEN "Unknown error" ELSE message.error

\* A pop that takes whichever entry the table holds
PopPendingAny(tr, msg_id) ==
    IF tr.pending_responses # {}
    THEN CHOOSE k \in tr.pending_responses : TRUE
    ELSE NoId

\* self._pending_responses.pop(message.id, None): the key of the future it
\* returns, NoId for None
PopPending(tr, msg_id) ==
    IF msg_id \in tr.pending_responses THEN msg_id ELSE NoId

\* The list StdioTransport._handle_message iterates for an event:
\* self._event_handlers.get(message.command or "", [])
EventKey(message) == IF Falsy(message.command) THEN "" ELSE message.command

EventHandlersFor(tr, message) ==
    IF message.type = "event"
    THEN Get(tr.event_handlers, EventKey(message), <<>>)
    ELSE <<>>

\* A loop that a raising handler ends
ContinueUnlessRaised(raised) == ~raised

\* The for loop goes on with the next handler whether the call raised or
\* not: the try/except is inside the loop
Continue(raised) == TRUE

\* What calling the list entry h does to the list under iteration: a
\* wrapper of once() first calls its unsubscribe function, which is bound to
\* the transport whose table holds the wrapper and removes the wrapper from
\* this very list; a plain handler leaves the list alone
CallHandler(handlers, h) ==
    IF h \in Handlers \cup AsyncHandlers THEN handlers
    ELSE RemoveFirst(handlers, h)

\* The handler the list entry h ends up calling
Inner(h) ==
    IF h \in Handlers \cup AsyncHandlers THEN h
    ELSE subs[CHOOSE k \in 1..Len(subs) : subs[k].handler = h].inner

\* for handler in handlers: the list iterator holds an index into the live
\* list, no copy; calls is the sequence of <<list entry, payload>> invoked.
\* A list entry that is an async function returns a coroutine, and the loop
\* awaits it: at is the index the loop goes on with once the coroutine has
\* finished, 0 when the loop got through the list.  (The wrapper of once()
\* drops what its handler returns, so only the entry itself counts.)
RECURSIVE Dispatch(_, _, _, _)
Dispatch(handlers, i, payload, calls) ==
    IF i > Len(handlers)
    THEN [handlers |-> handlers, calls |-> calls, at |-> 0]
    ELSE LET h == handlers[i]
             after == CallHandler(handlers, h)
             called == Append(calls, <<h, payload>>)
         IN IF h \in AsyncHandlers
            THEN [handlers |-> after, calls |-> called, at |-> i + 1]
            ELSE IF Continue(Inner(h) \in Raising)
            THEN Dispatch(after, i + 1, payload, called)
            ELSE [handlers |-> after, calls |-> called, at |-> 0]

\* A pop without a default: an id the table does not hold raises KeyError,
\* which the read loop logs
NoFutureKeyError(log) == "KeyError"

\* pop returned None, "if future:" is false: nothing is done, nothing logged
NoFuture(log) == log

\* StdioTransport._handle_message on transport t.  set_result and
\* set_exception raise InvalidStateError on a future that is not pending;
\* _read_loop catches it and logs it.
HandleMessage(t, message) ==
    LET tr == transports[t]
    IN IF message.type \in {"response", "error"}
       THEN /\ fired' = fired
            /\ IF PopPending(tr, message.id) # NoId
               THEN LET key == PopPending(tr, message.id)
                        fut == futures[key]
                        new == IF message.type = "error"
                               THEN SetFuture(fut, "exception", ErrorText(message), message)
                               ELSE SetFuture(fut, "result", message.payload, message)
                    IN /\ transports' = [transports EXCEPT
                              ![t].pending_responses = @ \ {key}]
                       /\ futures' = Referenced(
                              IF fut.state = "pending"
                              THEN [futures EXCEPT ![key] = new]
                              ELSE futures,
                              waiting, transports')
                       /\ logged' = IF fut.state = "pending" THEN logged
                                    ELSE "InvalidStateError"
               ELSE /\ logged' = NoFuture(logged)
                    /\ UNCHANGED <<transports, futures>>
       ELSE IF message.type = "event"
       THEN LET done == Dispatch(EventHandlersFor(tr, message), 1,
                                     message.payload, <<>>)
            IN /\ done.at = 0     \* no coroutine to await: see ReadLoopAwait
               /\ fired' = fired \o done.calls
               /\ transports' =
                     IF EventKey(message) \in DOMAIN tr.event_handlers
                     THEN [transports EXCEPT
                              ![t].event_handlers[EventKey(message)] = done.handlers]
                     ELSE transports
               /\ UNCHANGED <<futures, logged>>
       ELSE UNCHANGED <<transports, futures, fired, logged>>

\* A read loop that a line it cannot parse ends
ReadLoopBreak(t, line) ==
    /\ transports[t].reader_task = "running"
    /\ LET parsed == ParseMessage(line)
       IN IF parsed.ok
          THEN /\ Len(fired) + Len(EventHandlersFor(transports[t], parsed.message))
                     <= MaxFired
               /\ HandleMessage(t, parsed.message)
          ELSE /\ logged' = "JSONDecodeError"
               /\ transports' = [transports EXCEPT ![t].reader_task = "ended"]
               /\ UNCHANGED <<futures, fired>>
    /\ UNCHANGED <<mode, instance, constructed, returned, framing, subs,
                   ipc_connected, transport, event_handlers, msg_counter,
                   waiting, completed, written, issued>>

\* One turn of StdioTransport._read_loop: receive() returns a line, the line
\* is parsed and handled
ReadLoop(t, line) ==
    /\ transports[t].reader_task = "running"
    /\ LET parsed == ParseMessage(line)
       IN IF parsed.ok
          THEN /\ Len(fired) + Len(EventHandlersFor(transports[t], parsed.message))
                     <= MaxFired
               /\ HandleMessage(t, parsed.message)
          ELSE \* json.JSONDecodeError: logged, the loop goes on
               /\ logged' = "JSONDecodeError"
               /\ UNCHANGED <<transports, futures, fired>>
    /\ UNCHANGED <<mode, instance, constructed, returned, framing, subs,
                   ipc_connected, transport, event_handlers, msg_counter,
                   waiting, completed, written, issued>>

\* The for loop of _handle_message in the read loop of transport t, from
\* index i of the list under key on: the handlers are called up to the first
\* async one.  The loop awaits that handler's coroutine, which runs in the
\* reader task itself up to its first suspension: invoke with its lazy
\* connect, _generate_id, register_pending, send, and wait_for, where the
\* reader task stays until the future is done or the timeout fires.  ts and
\* fs are the transports and futures the step starts from.  (A send that
\* raises because the client's transport is not connected is left out: the
\* step is not taken then.)
RunHandlers(t, ts, fs, key, i, payload) ==
    LET done == Dispatch(Get(ts[t].event_handlers, key, <<>>), i, payload, <<>>)
        ts1 == IF key \in DOMAIN ts[t].event_handlers
               THEN [ts EXCEPT ![t].event_handlers[key] = done.handlers]
               ELSE ts
    IN /\ Len(fired) + Len(done.calls) <= MaxFired
       /\ fired' = fired \o done.calls
       /\ IF done.at = 0
          THEN /\ transports' = [ts1 EXCEPT ![t].reader_task = "running",
                                            ![t].awaiting = NoAwait]
               /\ futures' = Referenced(fs, waiting, transports')
               /\ UNCHANGED <<ipc_connected, transport, msg_counter, issued,
                              written>>
          ELSE /\ CanConnect
               /\ msg_counter < MaxMsgs
               /\ LET cl == LazyConnect([connected |-> ipc_connected,
                                         transport |-> transport,
                                         transports |-> ts1])
                      c == cl.transport
                      msg_id == GenerateId(msg_counter, Self)
                  IN /\ cl.transports[c].connected
                     /\ ipc_connected' = cl.connected
                     /\ transport' = c
                     /\ msg_counter' = msg_counter + 1
                     /\ issued' = Append(issued, msg_id)
                     /\ written' = written + 1
                     /\ transports' =
                           [cl.transports EXCEPT
                               ![c] = RegisterPending(@, msg_id),
                               ![t].reader_task = "awaiting",
                               ![t].awaiting = [id |-> msg_id, key |-> key,
                                                at |-> done.at,
                                                payload |-> payload]]
                     /\ futures' = Referenced(Put(fs, msg_id, NewFuture),
                                              waiting, transports')

\* One turn of the read loop for an event one of whose handlers is async:
\* the loop stops in "await result" (ipc.py:191) and reads no further line
ReadLoopAwait(t, line) ==
    /\ transports[t].reader_task = "running"
    /\ LET parsed == ParseMessage(line)
           message == parsed.message
       IN /\ parsed.ok
          /\ message.type = "event"
          /\ Dispatch(EventHandlersFor(transports[t], message), 1,
                      message.payload, <<>>).at > 0
          /\ RunHandlers(t, transports, futures, EventKey(message), 1,
                         message.payload)
    /\ UNCHANGED <<mode, instance, constructed, returned, framing, subs,
                   event_handlers, waiting, completed, logged>>

\* The wait_for of the invoke a handler awaits times out: invoke raises
\* IPCError in the reader task, "except Exception" of the for loop catches
\* it, and the loop goes on with the handlers that are left
HandlerTimeout(t) ==
    /\ transports[t].reader_task = "awaiting"
    /\ LET aw == transports[t].awaiting
       IN /\ completed' = Completion(aw.id, "IPCError", "timed out", NoFrame)
          /\ RunHandlers(t, transports,
                 [futures EXCEPT ![aw.id].state =
                     IF @ = "pending" THEN "cancelled" ELSE @],
                 aw.key, aw.at, aw.payload)
    /\ UNCHANGED <<mode, instance, constructed, returned, framing, subs,
                   event_handlers, waiting, logged>>

\* The future of the invoke a handler awaits was settled, by the read loop
\* of another transport: the handler returns or raises, and the loop goes on
HandlerReturn(t) ==
    /\ transports[t].reader_task = "awaiting"
    /\ LET aw == transports[t].awaiting
       IN /\ futures[aw.id].state \in {"result", "exception"}
          /\ completed' = Completion(aw.id,
                              IF futures[aw.id].state = "result"
                              THEN "result" ELSE "IPCError",
                              futures[aw.id].value, futures[aw.id].by)
          /\ RunHandlers(t, transports, futures, aw.key, aw.at, aw.payload)
    /\ UNCHANGED <<mode, instance, constructed, returned, framing, subs,
                   event_handlers, waiting, logged>>

\* readline returns "": receive raises EOFError and _read_loop breaks
ReadLoopEOF(t) ==
    /\ transports[t].reader_task = "running"
    /\ transports' = Live([transports EXCEPT ![t].reader_task = "ended"], transport)
    /\ futures' = Referenced(futures, waiting, transports')
    /\ UNCHANGED <<mode, instance, constructed, returned, framing, subs,
                   ipc_connected, transport, event_handlers, msg_counter,
                   waiting, completed, written, issued, fired, logged>>

\* The cancelled reader task takes its CancelledError and finishes; a task
\* cancelled inside a handler's invoke has the future it awaits cancelled
ReadLoopCancelled(t) ==
    /\ transports[t].reader_task = "cancelling"
    /\ transports' = Live([transports EXCEPT ![t].reader_task = "cancelled",
                                             ![t].awaiting = NoAwait], transport)
    /\ futures' = Referenced(
           [id \in DOMAIN futures |->
               IF id = transports[t].awaiting.id /\ futures[id].state = "pending"
               THEN [futures[id] EXCEPT !.state = "cancelled"]
               ELSE futures[id]],
           waiting, transports')
    /\ UNCHANGED <<mode, instance, constructed, returned, framing, subs,
                   ipc_connected, transport, event_handlers, msg_counter,
                   waiting, completed, written, issued, fired, logged>>

\* A caller that holds the stdio transport t calls t.connect() again:
\* connect has no guard, it sets the flag and assigns a new read-loop task
\* to _reader_task; a task that was running there runs on, referenced by
\* the event loop only (orphans).  Not taken while a disconnect() is
\* suspended on the task.
StdioConnect(t) ==
    /\ transports[t].kind = "stdio"
    /\ transports[t].reader_task # "cancelling"
    /\ LET live == IF transports[t].reader_task \in {"running", "awaiting"}
                   THEN 1 ELSE 0
       IN /\ transports[t].orphans + live < MaxLoops
          /\ transports' = [transports EXCEPT
                 ![t] = [TransportConnect(@) EXCEPT !.orphans = @ + live]]
    /\ UNCHANGED <<mode, instance, constructed, returned, framing, subs,
                   ipc_connected, transport, event_handlers, msg_counter,
                   waiting, futures, completed, written, issued, fired, logged>>

\* An orphaned read loop gets end of input in receive and breaks
OrphanEOF(t) ==
    /\ transports[t].orphans > 0
    /\ transports' = Live([transports EXCEPT ![t].orphans = @ - 1], transport)
    /\ futures' = Referenced(futures, waiting, transports')
    /\ UNCHANGED <<mode, instance, constructed, returned, framing, subs,
                   ipc_connected, transport, event_handlers, msg_counter,
                   waiting, completed, written, issued, fired, logged>>

\* ------------------------------------------------------------------ disconnect
\* TauriIPC.disconnect up to its suspension in StdioTransport.disconnect
\* (await self._reader_task), or the whole of it when nothing suspends
Disconnect ==
    /\ IF transport = 0
       THEN /\ ipc_connected' = FALSE
            /\ transports' = transports
       ELSE LET tr == transports[transport]
            IN IF tr.kind = "stdio" /\ tr.reader_task \in {"running", "awaiting",
                                                          "cancelling"}
               THEN /\ tr.joiners < MaxJoiners
                    /\ transports' = [transports EXCEPT
                           ![transport].connected = FALSE,
                           ![transport].reader_task = "cancelling",
                           ![transport].joiners = @ + 1]
                    /\ ipc_connected' = ipc_connected
               ELSE /\ transports' = [transports EXCEPT ![transport].connected = FALSE]
                    /\ ipc_connected' = FALSE
    /\ UNCHANGED <<mode, instance, constructed, returned, framing, subs,
                   transport, event_handlers, msg_counter, waiting, futures,
                   completed, written, issued, fired, logged>>

\* The suspended disconnect() calls resume once the reader task of transport
\* t is done, and set TauriIPC._connected = False.  The event loop wakes all
\* the waiters of a task one right after the other, and none of them
\* suspends again, so nothing runs in between.
DisconnectResume(t) ==
    /\ transports[t].joiners > 0
    /\ transports[t].reader_task = "cancelled"
    /\ transports' = Live([transports EXCEPT ![t].joiners = 0], transport)
    /\ futures' = Referenced(futures, waiting, transports')
    /\ ipc_connected' = FALSE
    /\ UNCHANGED <<mode, instance, constructed, returned, framing, subs,
                   transport, event_handlers, msg_counter, waiting, completed,
                   written, issued, fired, logged>>

\* ------------------------------------------------------------------ specifications
Next ==
    \/ Connect
    \/ \E command \in Commands, args \in ArgsValues : Invoke(command, args)
    \/ \E id \in waiting : InvokeReturn(id)
    \/ \E id \in waiting : InvokeTimeout(id)
    \/ \E event \in Topics, payload \in Payloads \cup {None} : Emit(event, payload)
    \/ \E inst \in OtherInstances : OtherGenerateId(inst)
    \/ \E event \in Topics, handler \in Handlers \cup AsyncHandlers :
          Listen(event, handler)
    \/ \E event \in Topics, handler \in Handlers : Once(event, handler)
    \/ \E k \in 1..Len(subs) : Unsubscribe(k)
    \/ \E t \in DOMAIN transports, line \in Lines : ReadLoop(t, line)
    \/ \E t \in DOMAIN transports, line \in Lines : ReadLoopAwait(t, line)
    \/ \E t \in DOMAIN transports : HandlerTimeout(t)
    \/ \E t \in DOMAIN transports : HandlerReturn(t)
    \/ \E t \in DOMAIN transports : ReadLoopEOF(t)
    \/ \E t \in DOMAIN transports : ReadLoopCancelled(t)
    \/ \E t \in DOMAIN transports : StdioConnect(t)
    \/ \E t \in DOMAIN transports : OrphanEOF(t)
    \/ Disconnect
    \/ \E t \in DOMAIN transports : DisconnectResume(t)
    \/ \E command \in Commands, response \in Payloads : SetResponse(command, response)
    \/ \E config \in Configs : GetInstance(config)
    \/ ResetInstance

Spec == Init /\ [][Next]_vars

\* The invoke path of a client in stdio mode: connect, invoke, the read
\* loop, timeouts, disconnect
InitStdio == Init /\ mode = "stdio"

NextCalls ==
    \/ Connect
    \/ \E command \in Commands, args \in ArgsValues : Invoke(command, args)
    \/ \E id \in waiting : InvokeReturn(id)
    \/ \E id \in waiting : InvokeTimeout(id)
    \/ \E t \in DOMAIN transports, line \in ReplyLines : ReadLoop(t, line)
    \/ \E t \in DOMAIN transports : ReadLoopEOF(t)
    \/ \E t \in DOMAIN transports : ReadLoopCancelled(t)
    \/ Disconnect
    \/ \E t \in DOMAIN transports : DisconnectResume(t)

SpecCalls == InitStdio /\ [][NextCalls]_vars

\* Concurrent invokes on a stdio client and the host's replies, in any order
NextReplies ==
    \/ Connect
    \/ \E command \in Commands, args \in ArgsValues : Invoke(command, args)
    \/ \E id \in waiting : InvokeReturn(id)
    \/ \E id \in waiting : InvokeTimeout(id)
    \/ \E t \in DOMAIN transports, line \in ReplyLines : ReadLoop(t, line)
    \/ \E t \in DOMAIN transports : ReadLoopEOF(t)

SpecReplies == InitStdio /\ [][NextReplies]_vars

\* The callers of the client API, in every mode, with a host that stays
\* silent: connect, invoke, emit, disconnect, and the timeouts
NextApi ==
    \/ Connect
    \/ \E command \in Commands, args \in ArgsValues : Invoke(command, args)
    \/ \E id \in waiting : InvokeTimeout(id)
    \/ \E event \in Topics, payload \in Payloads \cup {None} : Emit(event, payload)
    \/ \E inst \in OtherInstances : OtherGenerateId(inst)
    \/ \E t \in DOMAIN transports : ReadLoopCancelled(t)
    \/ Disconnect
    \/ \E t \in DOMAIN transports : DisconnectResume(t)

SpecApi == Init /\ [][NextApi]_vars

\* The callers of the client API with listen among them
NextCallers ==
    \/ NextApi
    \/ \E event \in Topics, handler \in Handlers : Listen(event, handler)

SpecCallers == Init /\ [][NextCallers]_vars

\* Plain subscriptions on the topics of the host's events, and the events
DispatchLines ==
    [marked : {TRUE}, json_ok : {TRUE},
     data : {HostJson(IPCMessage(NoId, "event", e, None, p, None)) :
                e \in EventTopics, p \in Payloads}]

NextDispatch ==
    \/ Connect
    \/ \E event \in EventTopics, handler \in Handlers : Listen(event, handler)
    \/ \E event \in EventTopics, handler \in Handlers : Once(event, handler)
    \/ \E k \in 1..Len(subs) : Unsubscribe(k)
    \/ \E t \in DOMAIN transports, line \in DispatchLines : ReadLoop(t, line)

SpecDispatch == InitStdio /\ [][NextDispatch]_vars

\* Subscriptions and the host's events on a stdio client, with disconnect
\* and reconnect
NextEvents ==
    \/ Connect
    \/ \E event \in Topics, handler \in Handlers : Listen(event, handler)
    \/ \E event \in Topics, handler \in Handlers : Once(event, handler)
    \/ \E k \in 1..Len(subs) : Unsubscribe(k)
    \/ \E t \in DOMAIN transports, line \in EventLines : ReadLoop(t, line)
    \/ \E t \in DOMAIN transports : ReadLoopCancelled(t)
    \/ Disconnect
    \/ \E t \in DOMAIN transports : DisconnectResume(t)

SpecEvents == InitStdio /\ [][NextEvents]_vars

\* What the host can make the read loop of a connected stdio client handle:
\* responses to its invokes, events for a subscriber, corrupt lines
InboundLines ==
    [marked : {TRUE}, json_ok : {TRUE},
     data : {HostJson(IPCMessage(id, "response", None, None, p, None)) :
                id \in Range(issued), p \in Payloads}]
    \cup DispatchLines
    \cup [marked : {TRUE}, json_ok : {FALSE}, data : {EmptyDict}]

NextInbound ==
    \/ Connect
    \/ \E command \in Commands, args \in ArgsValues : Invoke(command, args)
    \/ \E id \in waiting : InvokeReturn(id)
    \/ \E event \in EventTopics : Listen(event, "h1")
    \/ \E t \in DOMAIN transports, line \in InboundLines : ReadLoop(t, line)

SpecInbound == InitStdio /\ [][NextInbound]_vars

\* The same lines without the markers around them
UnmarkedLines == {[l EXCEPT !.marked = FALSE] : l \in InboundLines}

NextUnframed ==
    \/ Connect
    \/ \E command \in Commands, args \in ArgsValues : Invoke(command, args)
    \/ \E id \in waiting : InvokeReturn(id)
    \/ \E event \in EventTopics : Listen(event, "h1")
    \/ \E t \in DOMAIN transports, line \in InboundLines \cup UnmarkedLines :
          ReadLoop(t, line)

SpecUnframed == InitStdio /\ [][NextUnframed]_vars

\* StdioTransport.send(framing.message) on the client's transport
Send ==
    /\ framing.line = NoLine
    /\ framing.message # NoFrame
    /\ transport # 0
    /\ transports[transport].kind = "stdio"
    /\ transports[transport].connected
    /\ written' = written + 1
    /\ framing' = [framing EXCEPT !.line = Serialize(framing.message)]
    /\ UNCHANGED <<mode, instance, constructed, returned, subs, ipc_connected,
                   transport, transports, event_handlers, msg_counter,
                   waiting, futures, completed, issued, fired, logged>>

\* StdioTransport._parse_message on the line send wrote
Receive ==
    /\ framing.line # NoLine
    /\ framing.parsed = NoFrame
    /\ ParseMessage(framing.line).ok
    /\ framing' = [framing EXCEPT !.parsed = ParseMessage(framing.line).message]
    /\ UNCHANGED <<mode, instance, constructed, returned, subs, ipc_connected,
                   transport, transports, event_handlers, msg_counter,
                   waiting, futures, completed, written, issued, fired,
                   logged>>

\* The callers of the client API, with a connect() that may create its
\* transport while the one before it still has a disconnect() suspended on
\* its reader task
NextLifecycle ==
    \/ ConnectWhen(\/ ipc_connected
                   \/ Cardinality(DOMAIN Live(transports, 0)) <= MaxTransports)
    \/ \E command \in Commands, args \in ArgsValues : Invoke(command, args)
    \/ \E id \in waiting : InvokeTimeout(id)
    \/ \E event \in Topics, payload \in Payloads \cup {None} : Emit(event, payload)
    \/ \E t \in DOMAIN transports : ReadLoopCancelled(t)
    \/ Disconnect
    \/ \E t \in DOMAIN transports : DisconnectResume(t)

SpecLifecycle == Init /\ [][NextLifecycle]_vars

\* The life of a stdio transport: the client's connect and disconnect, and
\* a holder of the transport that calls its connect() directly
NextTransport ==
    \/ Connect
    \/ \E t \in DOMAIN transports : StdioConnect(t)
    \/ \E command \in Commands, args \in ArgsValues : Invoke(command, args)
    \/ \E id \in waiting : InvokeTimeout(id)
    \/ \E t \in DOMAIN transports : ReadLoopEOF(t)
    \/ \E t \in DOMAIN transports : OrphanEOF(t)
    \/ \E t \in DOMAIN transports : ReadLoopCancelled(t)
    \/ Disconnect
    \/ \E t \in DOMAIN transports : DisconnectResume(t)

SpecTransport == InitStdio /\ [][NextTransport]_vars

\* A client on the mock transport: a test registers responses, invokes,
\* disconnects and reconnects
\* Callers and the handlers of events, one of them async, on a stdio client
NextAwaiting ==
    \/ Connect
    \/ \E event \in EventTopics, handler \in {"h1"} \cup AsyncHandlers :
          Listen(event, handler)
    \/ Invoke("ping", None)
    \/ \E id \in waiting : InvokeReturn(id)
    \/ \E id \in waiting : InvokeTimeout(id)
    \/ \E t \in DOMAIN transports, line \in ReplyLines \cup EventLines :
          ReadLoop(t, line)
    \/ \E t \in DOMAIN transports, line \in EventLines : ReadLoopAwait(t, line)
    \/ \E t \in DOMAIN transports : HandlerTimeout(t)

SpecAwaiting == InitStdio /\ [][NextAwaiting]_vars

InitStub == Init /\ mode # "stdio"

NextStub ==
    \/ Connect
    \/ \E command \in Commands, response \in Payloads : SetResponse(command, response)
    \/ \E command \in Commands, args \in ArgsValues : Invoke(command, args)
    \/ Disconnect

SpecStub == InitStub /\ [][NextStub]_vars

\* The callers of get_instance, get_ipc and reset_instance
NextSingleton ==
    \/ \E config \in Configs : GetInstance(config)
    \/ ResetInstance

SpecSingleton == Init /\ [][NextSingleton]_vars

\* A message goes through send and comes back through _parse_message
InitFraming ==
    /\ InitClient
    /\ mode = "stdio"
    /\ framing \in [message : Messages, line : {NoLine}, parsed : {NoFrame}]

NextFraming ==
    \/ Connect
    \/ Send
    \/ Receive

SpecFraming == InitFraming /\ [][NextFraming]_vars

\* ------------------------------------------------------------------ properties
\* C1 (Correlation): a future is only ever settled by a frame that carries
\* the id of its own invoke, with that frame's payload (response) or error
\* text (error); and an invoke that returns a result or raises a host error
\* got it from a frame with its own id, whatever the order of arrival.
C1_Correlation ==
    /\ \A id \in DOMAIN futures :
          /\ futures[id].state = "result" =>
                /\ futures[id].by.id = id
                /\ futures[id].by.type = "response"
                /\ futures[id].value = futures[id].by.payload
          /\ futures[id].state = "exception" =>
                /\ futures[id].by.id = id
                /\ futures[id].by.type = "error"
                /\ futures[id].value = ErrorText(futures[id].by)
    /\ completed.kind = "result" =>
          /\ completed.by.id = completed.id
          /\ completed.by.type = "response"
          /\ completed.value = completed.by.payload
    /\ (completed.kind = "IPCError" /\ completed.value # "timed out") =>
          /\ completed.by.id = completed.id
          /\ completed.by.type = "error"
          /\ completed.value = ErrorText(completed.by)

\* Two invokes in flight, answered in the reverse order with different
\* payloads: the second has returned its own, the first holds its own
C1_Witness ==
    /\ completed.kind = "result"
    /\ completed.id = <<2, Self>>
    /\ <<1, Self>> \in waiting
    /\ futures[<<1, Self>>].state = "result"
    /\ futures[<<1, Self>>].value # completed.value

\* C2 (Four outcomes): every invoke that completes returns a result or
\* raises an IPCError (host error, timeout, disconnected); nothing else
\* reaches the caller.
C2_FourOutcomes == completed.kind \in {"none", "result", "IPCError"}

\* C3 (At-most-one settlement): a future that is settled stays as it is,
\* and no frame handled by the read loop raises InvalidStateError: a frame
\* for a call that is already settled is a no-op.
C3_SettledOnce ==
    [][/\ logged' = "InvalidStateError" => logged = "InvalidStateError"
       /\ \A id \in DOMAIN futures :
             (futures[id].state # "pending" /\ id \in DOMAIN futures')
                => futures'[id] = futures[id]]_vars

\* C4 (Pending table): the table of a transport holds an entry only for an
\* invoke that is still suspended; the entry of a call that finished, by a
\* response, an error or its timeout, is gone.
C4_PendingOnlyWhileWaiting ==
    \A t \in DOMAIN transports : transports[t].pending_responses \subseteq waiting

\* C5 (Timeout isolation): the step in which invoke a times out leaves every
\* other suspended invoke b suspended, its future and its table entry as
\* they were; a response frame for a pending b then sets b's future to the
\* frame's payload, and b's invoke returns what its future holds (or times
\* out itself).
C5_TimeoutIsolation ==
    [][/\ \A a \in waiting :
             (a \notin waiting' /\ completed' = Completion(a, "IPCError", "timed out", NoFrame))
             => \A b \in waiting \ {a} :
                   /\ b \in waiting'
                   /\ futures'[b] = futures[b]
                   /\ \A t \in DOMAIN transports :
                         b \in transports[t].pending_responses
                            => /\ t \in DOMAIN transports'
                               /\ b \in transports'[t].pending_responses
       /\ \A t \in DOMAIN transports :
             \A b \in waiting \cap transports[t].pending_responses, p \in Payloads :
                (/\ futures[b].state = "pending"
                 /\ ReadLoop(t, [marked |-> TRUE, json_ok |-> TRUE,
                                 data |-> HostJson(IPCMessage(b, "response", None,
                                                              None, p, None))]))
                => /\ futures'[b].state = "result"
                   /\ futures'[b].value = p
       /\ \A b \in waiting :
             (b \notin waiting' /\ futures[b].state = "result")
             => \/ completed' = Completion(b, "result", futures[b].value, futures[b].by)
                \/ completed' = Completion(b, "IPCError", "timed out", NoFrame)]_vars

\* The first invoke timed out, its cancelled future still in the table; the
\* second one has returned the payload of its response
C5_Witness ==
    /\ <<1, Self>> \in DOMAIN futures
    /\ futures[<<1, Self>>].state = "cancelled"
    /\ <<1, Self>> \notin waiting
    /\ completed.kind = "result"
    /\ completed.id = <<2, Self>>
    /\ completed.value = completed.by.payload

\* C6 (Disconnect settles all): once disconnect() has returned (the client
\* is Disconnected) no invoke is still suspended and every pending table is
\* empty.
C6_DisconnectSettlesAll ==
    ~ipc_connected =>
        /\ waiting = {}
        /\ \A t \in DOMAIN transports : transports[t].pending_responses = {}

\* C7 (EOF is a disconnect): once the read loop of a transport has ended on
\* end of input, the transport and its client are Disconnected and no
\* pending call of that transport is still suspended.
C7_EOFDisconnects ==
    \A t \in DOMAIN transports :
        transports[t].reader_task = "ended" =>
            /\ ~transports[t].connected
            /\ t = transport => ~ipc_connected
            /\ transports[t].pending_responses \cap waiting = {}

\* C8 (Ids never reused): the ids _generate_id returned are pairwise
\* different, those of calls that have completed included.
C8_IdsNeverReused ==
    \A i, j \in 1..Len(issued) : i # j => issued[i] # issued[j]

\* Several ids issued, to this client and to another instance, one of them
\* to an invoke that has completed
C8_Witness ==
    /\ Len(issued) >= 2
    /\ completed.kind # "none"
    /\ \E i, j \in 1..Len(issued) :
          /\ issued[i] = completed.id
          /\ i < j
          /\ issued[j][2] # issued[i][2]

\* C9 (Lazy connect): a step in which this client, Disconnected, takes an
\* id (invoke, emit) or registers a handler (listen) leaves it Connected,
\* with a connected transport.
C9_LazyConnect ==
    [][(/\ ~ipc_connected
        /\ \/ /\ Len(issued') > Len(issued)
              /\ issued'[Len(issued')][2] = Self
           \/ event_handlers' # event_handlers)
       => /\ ipc_connected'
          /\ transport' \in DOMAIN transports'
          /\ transports'[transport'].connected]_vars

\* C10 (Single connect): no step of a Connected client creates a transport,
\* starts a read loop or replaces the client's transport; any step creates
\* at most one transport and starts at most one loop; the step that takes
\* the client from Disconnected to Connected creates exactly one transport,
\* the client's, and in stdio mode starts exactly its read loop.
C10_SingleConnect ==
    [][LET created == {a \in DOMAIN transports' :
                          /\ transports'[a].connected
                          /\ a \in DOMAIN transports => ~transports[a].connected}
           started == {a \in DOMAIN transports' :
                          /\ transports'[a].reader_task = "running"
                          /\ a \in DOMAIN transports
                                => transports[a].reader_task # "running"}
       IN /\ ipc_connected =>
                /\ created = {}
                /\ started = {}
                /\ transport' = transport
          /\ Cardinality(created) <= 1
          /\ Cardinality(started) <= 1
          /\ (~ipc_connected /\ ipc_connected') =>
                /\ created = {transport'}
                /\ started = IF mode = "stdio" THEN created ELSE {}]_vars

\* A connected stdio client whose one transport has served an invoke and an
\* emit, the invoke still suspended
C10_Witness ==
    /\ ipc_connected
    /\ mode = "stdio"
    /\ DOMAIN transports = {transport}
    /\ transports[transport].reader_task = "running"
    /\ written = 2
    /\ waiting # {}

\* The number of times x occurs in a list
Count(list, x) == Cardinality({i \in 1..Len(list) : list[i] = x})

\* An event frame on a topic
EventFrame(topic, payload) == IPCMessage(NoId, "event", topic, None, payload, None)

\* C11 (Events reach every live subscription): while the client is
\* connected and its read loop runs, the dispatch of an event calls every
\* handler that listen registered on the event's topic and that was not
\* unsubscribed, whether listen came before the first connect or before a
\* disconnect and reconnect.
C11_EventsReachSubscribers ==
    (/\ ipc_connected
     /\ transport \in DOMAIN transports
     /\ transports[transport].kind = "stdio"
     /\ transports[transport].reader_task = "running")
    => \A k \in 1..Len(subs) :
          (subs[k].handler \in Handlers /\ ~subs[k].called)
          => \A p \in Payloads :
                LET calls == Dispatch(EventHandlersFor(transports[transport],
                                          EventFrame(subs[k].event, p)),
                                      1, p, <<>>).calls
                IN \E i \in 1..Len(calls) : calls[i] = <<subs[k].handler, p>>

\* C12 (Unsubscribe): the first call of the function listen() call k
\* returned takes exactly one registration of its handler out of the
\* client's table and out of the table of the transport it was registered
\* with, and nothing else; every later call changes no table.
C12_UnsubscribeExactlyOnce ==
    [][\A k \in 1..Len(subs) :
          Unsubscribe(k) =>
             LET e == subs[k].event
                 h == subs[k].handler
             IN IF subs[k].called
                THEN event_handlers' = event_handlers /\ transports' = transports
                ELSE /\ Count(event_handlers'[e], h) = Count(event_handlers[e], h) - 1
                     /\ \A t \in DOMAIN transports :
                           Count(transports'[t].event_handlers[e], h)
                              = Count(transports[t].event_handlers[e], h)
                                - (IF k \in transports[t].closures THEN 1 ELSE 0)]_vars

\* C13 (Once): when an event is dispatched, a once() subscription on its
\* topic that has not fired yet is invoked exactly once, one that has fired
\* is not invoked again; and calling its unsubscribe function after it has
\* fired changes no table.
C13_OnceSemantics ==
    [][/\ \A t \in DOMAIN transports, line \in EventLines :
             ReadLoop(t, line) =>
                LET m == ParseMessage(line).message
                    new == SubSeq(fired', Len(fired) + 1, Len(fired'))
                IN \A k \in 1..Len(subs) :
                      (/\ subs[k].handler \notin Handlers
                       /\ subs[k].event = EventKey(m)
                       /\ k \in transports[t].closures
                       /\ ~subs[k].called)
                      => Count(new, <<subs[k].handler, m.payload>>)
                            = IF \E i \in 1..Len(fired) : fired[i][1] = subs[k].handler
                              THEN 0 ELSE 1
       /\ \A k \in 1..Len(subs) :
             (/\ Unsubscribe(k)
              /\ subs[k].handler \notin Handlers
              /\ \E i \in 1..Len(fired) : fired[i][1] = subs[k].handler)
             => event_handlers' = event_handlers /\ transports' = transports]_vars

\* C14 (Dispatch order): the dispatch of an event calls every handler that
\* is in the list of its topic when the dispatch starts, once each, in
\* registration order, whatever the handlers do to the list meanwhile.
C14_DispatchSnapshot ==
    [][\A t \in DOMAIN transports, line \in EventLines :
          ReadLoop(t, line) =>
             LET m == ParseMessage(line).message
                 handlers == EventHandlersFor(transports[t], m)
             IN fired' = fired \o [i \in 1..Len(handlers) |->
                                      <<handlers[i], m.payload>>]]_vars

\* C15 (Topic matching): the dispatch of an event calls the handlers
\* subscribed to the identical topic and those subscribed to a pattern with
\* a trailing wildcard segment that the topic matches ("user:*" for
\* "user:login"), and no others.
C15_TopicMatching ==
    \A t \in DOMAIN transports, e \in EventTopics :
        LET matching == {s \in Topics : s = e \/ (s = "user:*" /\ e = "user:login")}
            called == Range(EventHandlersFor(transports[t], EventFrame(e, "p1")))
        IN /\ \A s \in matching : Range(transports[t].event_handlers[s]) \subseteq called
           /\ \A h \in called :
                 \E s \in matching : h \in Range(transports[t].event_handlers[s])

C17_CorruptLineSkipped ==
    [][\A t \in DOMAIN transports, line \in InboundLines :
          ReadLoop(t, line) =>
             LET m == ParseMessage(line).message
             IN IF ~line.json_ok
                THEN /\ futures' = futures
                     /\ fired' = fired
                     /\ transports' = transports
                     /\ ipc_connected' = ipc_connected
                     /\ transports'[t].reader_task = "running"
                ELSE logged = "JSONDecodeError" =>
                        /\ transports'[t].reader_task = "running"
                        /\ (/\ m.type = "response"
                            /\ m.id \in transports[t].pending_responses
                            /\ futures[m.id].state = "pending")
                           => /\ futures'[m.id].state = "result"
                              /\ futures'[m.id].value = m.payload
                        /\ m.type = "event" =>
                              LET handlers == EventHandlersFor(transports[t], m)
                              IN fired' = fired \o [i \in 1..Len(handlers) |->
                                                       <<handlers[i], m.payload>>]]_vars

\* A response has completed an invoke, a corrupt line was logged, an event
\* has reached the handler, and the read loop runs
C17_Witness ==
    /\ logged = "JSONDecodeError"
    /\ completed.kind = "result"
    /\ completed.value = completed.by.payload
    /\ Len(fired) >= 1
    /\ ipc_connected
    /\ transports[transport].reader_task = "running"

\* C18 (Unframed lines are noise): a line without the frame markers,
\* whatever it holds, settles no call, calls no handler and changes no
\* table.
C18_UnframedSkipped ==
    [][\A t \in DOMAIN transports, line \in UnmarkedLines :
          ReadLoop(t, line) =>
             /\ futures' = futures
             /\ fired' = fired
             /\ transports' = transports]_vars

\* C19 (Round trip): what _parse_message reads from the line send wrote for
\* a message is that message, in all six fields.
C19_RoundTrip ==
    framing.parsed # NoFrame => framing.parsed = framing.message

\* C20 (Host error verbatim): an invoke that fails on an error frame raises
\* an IPCError with the error string of that frame, as it is in the frame.
C20_HostErrorVerbatim ==
    (completed.kind = "IPCError" /\ completed.by.type = "error")
        => completed.value = completed.by.error

\* C21 (No raw transport exception): whatever ends an invoke, the caller
\* gets a result or an IPCError, never the RuntimeError of send or the
\* EOFError of receive.
C21_NoRawException == completed.kind \notin {"RuntimeError", "EOFError"}

\* C22 (emit is fire-and-forget): an emit takes one id and makes one call of
\* send, which on a connected stdio transport writes one line; it registers
\* no pending call (the table of the client's transport is as before, or
\* empty when emit had to connect first), suspends no caller, completes no
\* invoke, and leaves the subscription tables of the client and of its
\* transport as they were.
C22_EmitFireAndForget ==
    [][\A event \in Topics, payload \in Payloads \cup {None} :
          Emit(event, payload) =>
             LET new == transports'[transport']
             IN /\ Len(issued') = Len(issued) + 1
                /\ written' = IF new.kind = "stdio" /\ new.connected
                              THEN written + 1 ELSE written
                /\ new.pending_responses =
                      IF ipc_connected
                      THEN transports[transport].pending_responses ELSE {}
                /\ waiting' = waiting
                /\ completed' = completed
                /\ event_handlers' = event_handlers
                /\ new.event_handlers =
                      IF ipc_connected
                      THEN transports[transport].event_handlers
                      ELSE [e \in Topics |-> <<>>]]_vars

\* An invoke is waiting on a stdio transport and an emit after it has
\* written the second line: the table holds the id of the invoke only
C22_Witness ==
    /\ Len(issued) = 2
    /\ issued[2][2] = Self
    /\ waiting = {issued[1]}
    /\ written = 2
    /\ transport \in DOMAIN transports
    /\ transports[transport].pending_responses = {issued[1]}

\* C27 (Register before send): the step of invoke that writes the frame has
\* put the new id into the pending table of the client's transport; every
\* invoke that waits on a pending future has its id in a pending table; and
\* a response for such an invoke, whenever the read loop gets it, sets the
\* future of that invoke.
C27_RegisterBeforeSend ==
    [][/\ written' > written =>
             issued'[Len(issued')] \in transports'[transport'].pending_responses
       /\ \A id \in waiting' :
             futures'[id].state = "pending" =>
                \E t \in DOMAIN transports' : id \in transports'[t].pending_responses
       /\ \A t \in DOMAIN transports, line \in ReplyLines :
             LET m == ParseMessage(line).message
             IN (/\ ReadLoop(t, line)
                 /\ m.type = "response"
                 /\ m.id \in waiting
                 /\ futures[m.id].state = "pending")
                => /\ futures'[m.id].state = "result"
                   /\ futures'[m.id].value = m.payload]_vars

\* The first invoke is still waiting, its entry in the table, while the
\* response to the second, sent at once, has reached it
C27_Witness ==
    /\ completed.kind = "result"
    /\ completed.id = <<2, Self>>
    /\ completed.by.id = completed.id
    /\ waiting = {<<1, Self>>}
    /\ futures[<<1, Self>>].state = "pending"
    /\ <<1, Self>> \in transports[transport].pending_responses

\* C28 (Unknown ids are discarded): a response or error frame whose id is
\* not a key of the pending table, never registered or already removed,
\* settles no future, completes and wakes no invoke, raises nothing that
\* the read loop would log, and leaves the pending table and the
\* subscription tables as they were.
C28_UnknownIdDiscarded ==
    [][\A t \in DOMAIN transports, line \in ReplyLines :
          (/\ ReadLoop(t, line)
           /\ line.json_ok
           /\ ParseMessage(line).message.id \notin transports[t].pending_responses)
          => /\ futures' = futures
             /\ completed' = completed
             /\ waiting' = waiting
             /\ logged' = logged
             /\ transports' = transports
             /\ event_handlers' = event_handlers]_vars

\* One invoke has returned its result, so its id is out of the table, and
\* another waits with its entry in the table: a second frame for the first
\* id, or a frame with an id nobody issued, finds no entry
C28_Witness ==
    /\ completed.kind = "result"
    /\ waiting # {}
    /\ transport \in DOMAIN transports
    /\ transports[transport].reader_task = "running"
    /\ completed.id \notin transports[transport].pending_responses
    /\ \A id \in waiting :
          /\ futures[id].state = "pending"
          /\ id \in transports[transport].pending_responses

\* C23 (Stub canned response): an invoke on the mock transport of a command
\* that has a registration returns, whatever its args, the response of the
\* last set_mock_response call for that command on that transport, whatever
\* was registered for other commands before or after.
C23_StubCannedResponse ==
    [][\A command \in Commands, args \in ArgsValues :
          (Invoke(command, args) /\ transports'[transport'].kind = "mock") =>
             LET reg == transports'[transport'].registered
                 mine == {i \in 1..Len(reg) : reg[i][1] = command}
                 last == CHOOSE i \in mine : \A j \in mine : j <= i
             IN mine # {} =>
                   completed' = Completion(issued'[Len(issued')], "result",
                                           reg[last][2], NoFrame)]_vars

\* "ping" was registered twice, with different responses, and the invoke
\* after that has returned the second
C23_Witness ==
    /\ transport \in DOMAIN transports
    /\ transports[transport].kind = "mock"
    /\ transports[transport].registered = <<<<"ping", "p1">>, <<"ping", "p2">>>>
    /\ completed.kind = "result"
    /\ completed.value = "p2"

\* C24 (Stub delay and timeout): an invoke on the mock transport of the
\* command "slow", whose response a test means to be delayed beyond the
\* client's timeout, raises the timeout IPCError and does not return the
\* registered payload.  The mock transport has one kind of registration,
\* set_mock_response, so that is how "slow" gets its response here.
C24_StubTimeout ==
    [][\A args \in ArgsValues :
          (/\ Invoke("slow", args)
           /\ transports'[transport'].kind = "mock"
           /\ "slow" \in DOMAIN transports'[transport'].mock_responses)
          => /\ completed'.kind = "IPCError"
             /\ completed'.value = "timed out"]_vars

C29_OneReadLoop ==
    \A t \in DOMAIN transports :
        LET tr == transports[t]
        IN tr.kind = "stdio" =>
              /\ tr.orphans = 0
              /\ (~tr.connected /\ tr.joiners = 0) =>
                    tr.reader_task \in {"none", "cancelled", "ended"}

\* C30 (Connection-state consistency): whenever no disconnect() is in
\* progress, is_connected is true exactly when the client holds a transport
\* and that transport is connected; connect() leaves it true, and a
\* disconnect() that completes leaves it false.
C30_StateConsistency ==
    [][/\ (\A t \in DOMAIN transports' : transports'[t].joiners = 0) =>
             (ipc_connected' <=>
                 (transport' # 0 /\ transports'[transport'].connected))
       /\ (ipc_connected' /\ ~ipc_connected) =>
             (transport' # 0 /\ transports'[transport'].connected)
       /\ (\E t \in DOMAIN transports : DisconnectResume(t)) => ~ipc_connected'
       /\ (Disconnect /\ \A t \in DOMAIN transports' : transports'[t].joiners = 0)
             => ~ipc_connected']_vars
\* C26: the receive loop is never blocked by a waiting caller.  Whenever an
\* invoke is suspended waiting for its response, be it the call of a caller
\* task or a call awaited inside an async event handler, the read loop of
\* the transport that holds its pending entry, unless it has finished, is
\* reading, so that a response the host sends can reach the invoke.
C26_LoopNeverBlocked ==
    \A t \in DOMAIN transports :
        (/\ \E id \in transports[t].pending_responses :
                /\ futures[id].state = "pending"
                /\ \/ id \in waiting
                   \/ \E u \in DOMAIN transports : transports[u].awaiting.id = id
         /\ transports[t].reader_task \notin {"none", "ended", "cancelling",
                                              "cancelled"})
        => transports[t].reader_task = "running"

====
